---- MODULE Spec2Model ----
(***************************************************************************)
(* A model of qrz_sk_monitor.py: the Silent Key classifier, the            *)
(* last-modified extractor and the run loop of main() with its state file, *)
(* change events, counters and Pushover notifications.                     *)
(***************************************************************************)
EXTENDS Integers, Sequences, FiniteSets, TLC

VARIABLES
    pc,             \* position of the process: idle, loop, save_write, summary,
                    \* done, crashed (a run); classify, classified (the classifier)
    run,            \* number of runs started so far (run_ts_iso of the current run)
    stateFile,      \* STATE_FILE on disk: callsign -> record
    tmpFile,        \* STATE_FILE + ".tmp" on disk
    calls,          \* main(): calls
    idx,            \* main(): number of callsigns the loop has been through
    state,          \* main(): state
    change_events,  \* main(): change_events
    totals,         \* main(): totals
    http_ok,        \* main(): http_ok
    api_cfg,        \* main(): api_cfg
    po_ok,          \* main(): po_ok
    sent,           \* the calls of send_pushover in this run, with what they returned
    last,           \* main(): the locals of the latest loop iteration
    heartbeat,      \* main(): target_day_idx, now_syd.weekday() of the summary
    exit_code,      \* what main() returned
    ref,            \* state, change_events and totals of the same run with every
                    \* notification delivered
    doc,            \* detect_silent_key_signals: its arguments (soup, final_url)
    det,            \* detect_silent_key_signals: its return value
    logFile         \* LOG_FILE on disk: its path and the lines appended to it

vars == <<pc, run, stateFile, tmpFile, calls, idx, state, change_events, totals,
          http_ok, api_cfg, po_ok, sent, last, heartbeat, exit_code, ref, doc, det,
          logFile>>

\* ------------------------------------------------------------------ bounds

MaxRuns == 2

\* ------------------------------------------------------------------ values

None == "None"

Calls == {"VK1AA", "VK2BB"}

\* The order in which json.dump meets the keys of the state mapping.
CallOrder == <<"VK1AA", "VK2BB">>

Years == {"2024", "2025"}

\* A text region as the two body detectors see it: whether it is the empty string,
\* whether the header phrase matches it, whether the QSL line matches it.
EmptyRegion == [empty |-> TRUE, silent_key |-> FALSE, qsl |-> FALSE]

Regions == {EmptyRegion} \cup [empty : {FALSE}, silent_key : BOOLEAN, qsl : BOOLEAN]

\* A title (soup.title, og:title): whether it has text, and the year of its /SKyyyy.
NoTitle == [text |-> FALSE, sk |-> None]

Titles == {NoTitle} \cup [text : {TRUE}, sk : Years \cup {None}]

\* What follows the "Last modified:" label in the page text: the timestamp text
\* (stamp) and the annotation after it (tail); label is FALSE when the page has
\* no such label.
NoLastModified == [label |-> FALSE, stamp |-> "", tail |-> ""]

LmStamps == {"2024-01-01 00:00:00", "2024-06-01 00:00:00", "soon", ""}

LmTails == {"", ", 4096 bytes by N0CALL"}

LmCaptures == {NoLastModified} \cup [label : {TRUE}, stamp : LmStamps, tail : LmTails]

\* A URL of the profile site: the callsign of its path and the year of an /SKyyyy
\* alias segment.
NoUrl == [call |-> None, alias |-> None]

Url(callsign, alias) == [call |-> callsign, alias |-> alias]

\* ------------------------------------------------------------------ detectors

signal_url_alias(final_url) ==
    IF final_url = NoUrl THEN None
    ELSE IF final_url.alias # None THEN "URL alias SK" \o final_url.alias
    ELSE None

\* The title signal worded as the URL signal.
signal_title_skpath_AsUrl(soup) ==
    LET titles == SelectSeq(<<soup.title, soup.og_title>>, LAMBDA t : t.text)
        hits == SelectSeq(titles, LAMBDA t : t.sk # None)
    IN  IF hits # <<>> THEN "URL alias SK" \o hits[1].sk ELSE None

signal_title_skpath(soup) ==
    LET titles == SelectSeq(<<soup.title, soup.og_title>>, LAMBDA t : t.text)
        hits == SelectSeq(titles, LAMBDA t : t.sk # None)
    IN  IF hits # <<>> THEN "Title path SK" \o hits[1].sk ELSE None

signal_header_silent_key(text_region) ==
    IF text_region.silent_key THEN "Header shows 'Silent Key'" ELSE None

signal_qsl_reported_sk(text_region) ==
    IF text_region.qsl THEN "QSL: Reported Silent Key" ELSE None

InSeq(x, s) == \E i \in 1..Len(s) : s[i] = x

AppendIf(reasons, cond, r) == IF cond THEN Append(reasons, r) ELSE reasons

\* "QSL: Reported Silent Key" in x
HasQslText(x) ==
    x \in {"QSL: Reported Silent Key" \o t :
             t \in {"", " (header)", " (callsign-slice)", " (page)"}}

HeaderPhraseLoop(reasons, soup) ==
    LET one(rs, name, region) ==
            IF region.empty THEN rs
            ELSE LET r == signal_header_silent_key(region)
                 IN  AppendIf(rs, r # None /\ ~InSeq(r, rs), r \o " (" \o name \o ")")
    IN  one(one(reasons, "header", soup.header), "callsign-slice", soup.cs_slice)

\* The QSL line reported for every region it matches in.
QslCascade_EveryRegion(reasons, soup) ==
    LET one(rs, name, region) ==
            LET r == signal_qsl_reported_sk(region)
            IN  AppendIf(rs, r # None /\ ~InSeq(r, rs), r \o " (" \o name \o ")")
    IN  one(one(one(reasons, "header", soup.header), "callsign-slice", soup.cs_slice),
            "page", soup.full)

QslCascade(reasons, soup) ==
    LET r  == signal_qsl_reported_sk(soup.header)
        a1 == AppendIf(reasons, r # None /\ ~InSeq(r, reasons), r \o " (header)")
        r2 == signal_qsl_reported_sk(soup.cs_slice)
        a2 == IF r = None
              THEN AppendIf(a1, r2 # None /\ ~InSeq(r2, a1), r2 \o " (callsign-slice)")
              ELSE a1
        r3 == signal_qsl_reported_sk(soup.full)
    IN  IF ~(\E i \in 1..Len(a2) : HasQslText(a2[i]))
        THEN AppendIf(a2, r3 # None /\ ~InSeq(r3, a2), r3 \o " (page)")
        ELSE a2

detect_silent_key_signals(soup, final_url) ==
    LET u  == signal_url_alias(final_url)
        a1 == AppendIf(<<>>, u # None, u)
        t  == signal_title_skpath(soup)
        a2 == AppendIf(a1, t # None, t)
        a3 == HeaderPhraseLoop(a2, soup)
        reasons == QslCascade(a3, soup)
    IN  [is_sk |-> Len(reasons) > 0, reasons |-> reasons]

\* ------------------------------------------------------------------ last modified

clean_last_modified_raw(capture) == capture.stamp

dateparser_parse(raw) ==
    CASE raw = "2024-01-01 00:00:00" -> "2024-01-01T00:00:00"
      [] raw = "2024-06-01 00:00:00" -> "2024-06-01T00:00:00"
      [] OTHER -> None

extract_last_modified(soup) ==
    IF ~soup.last_modified.label THEN [iso |-> None, raw |-> None]
    ELSE LET raw == clean_last_modified_raw(soup.last_modified)
         IN  [iso |-> IF raw # "" THEN dateparser_parse(raw) ELSE None,
              raw |-> IF raw # "" THEN raw ELSE None]

\* ------------------------------------------------------------------ state I/O

EmptyDict == [k \in {} |-> None]

\* dict.get(key): None for a key the dict does not have
DictGet(d, key) == IF key \in DOMAIN d THEN d[key] ELSE None

\* state.get(callsign, {})
StateGet(st, callsign) == IF callsign \in DOMAIN st THEN st[callsign] ELSE EmptyDict

\* state[callsign] = record
StatePut(st, callsign, record) ==
    [c \in DOMAIN st \cup {callsign} |-> IF c = callsign THEN record ELSE st[c]]

\* A state file that cannot be read: load_state returns {}.
load_state_Unreadable(file) == EmptyDict

load_state(file) == file

NoFile == [exists |-> FALSE, data |-> EmptyDict]

\* The two files of save_state: path and path + ".tmp".
Files(path, tmp) == [path |-> path, tmp |-> tmp]

\* open(tmp, "w")
OpenTmp(files) == [files EXCEPT !.tmp = [exists |-> TRUE, data |-> EmptyDict]]

\* json.dump writing to the state file itself
DumpRecord_InPlace(files, callsign, record) ==
    [files EXCEPT !.tmp.data = StatePut(@, callsign, record),
                  !.path = StatePut(@, callsign, record)]

\* json.dump(state, f) writing the record of one callsign to the open file
DumpRecord(files, callsign, record) ==
    [files EXCEPT !.tmp.data = StatePut(@, callsign, record)]

\* os.replace(tmp, path)
Replace(files) == [path |-> files.tmp.data, tmp |-> NoFile]

\* The keys json.dump has not yet written to the temporary file, in order.
Unwritten(st, tmp) ==
    SelectSeq(CallOrder, LAMBDA c : c \in DOMAIN st /\ c \notin DOMAIN tmp.data)

\* ------------------------------------------------------------------ configuration

ApiConfigs ==
    { [token |-> "app-token", user |-> "user-key"],
      [token |-> "app-token", user |-> None] }

pushover_enabled(cfg) == cfg.token # None /\ cfg.user # None

\* What the Pushover request of one send_pushover call comes to.
SendOutcomes == {"200", "500", "exception"}

send_pushover(cfg, outcome) ==
    IF cfg.token = None \/ cfg.user = None THEN FALSE
    ELSE outcome = "200"

\* QRZ_SK_HEARTBEAT_DAY values, and str(value).strip().lower() of each.
HeartbeatDays == {"Sunday", " tuesday", "8"}

Lowered(value) ==
    CASE value = "Sunday" -> "sunday"
      [] value = " tuesday" -> "tuesday"
      [] OTHER -> value

_parse_weekday(value) ==
    LET v == Lowered(value)
        daymap == [monday |-> 0, tuesday |-> 1, wednesday |-> 2, thursday |-> 3,
                   friday |-> 4, saturday |-> 5, sunday |-> 6]
        digits == [d \in {"1", "8"} |-> IF d = "1" THEN 1 ELSE 8]
    IN  IF v \in DOMAIN daymap THEN daymap[v]
        ELSE IF v \in DOMAIN digits /\ 0 <= digits[v] /\ digits[v] <= 6 THEN digits[v]
        ELSE 6

\* The heartbeat whatever the run found.
HeartbeatDue_AnyRun(is_heartbeat_day, nothing_changed, po) == is_heartbeat_day /\ po

\* is_heartbeat_day and nothing_changed and po_ok
HeartbeatDue(is_heartbeat_day, nothing_changed, po) ==
    is_heartbeat_day /\ nothing_changed /\ po

\* now_syd.weekday() at the summary
Weekdays == {1, 6}

\* ------------------------------------------------------------------ logging

\* QRZ_SK_LOG: the default log file, or the null device, which keeps nothing.
DevNull == "/dev/null"

NoLog(path) == [path |-> path, lines |-> <<>>]

\* logger.info through the FileHandler, which opens LOG_FILE for appending.
logger_info(file, line) ==
    IF file.path = DevNull THEN file ELSE [file EXCEPT !.lines = Append(@, line)]

\* The lines one successful check logs: the result, the URL, the signals and the
\* CHANGE lines of the events it appended, under the timestamp of the run.
CheckLines(run_ts_iso, callsign, d, lm, final_url, changes) ==
    [line |-> "Result", run |-> run_ts_iso, callsign |-> callsign, is_sk |-> d.is_sk,
     lm_iso |-> lm.iso, lm_raw |-> lm.raw, final_url |-> final_url,
     signals |-> d.reasons, changes |-> changes]

RunCompleteLine(run_ts_iso) == [line |-> "Run complete", run |-> run_ts_iso]

\* ------------------------------------------------------------------ fetch

\* What session.get comes to for one callsign: an exception, or a response with
\* a status, a body (its text empty or not, parsed as soup) and a final URL.
Response(kind, status, text, soup, url) ==
    [kind |-> kind, status |-> status, text |-> text, soup |-> soup, url |-> url]

fetch_qrz_page(resp, callsign) ==
    IF resp.kind = "exception"
    THEN [html |-> None, status |-> None, final_url |-> Url(callsign, None), soup |-> resp.soup]
    ELSE IF resp.status = "200"
    THEN [html |-> resp.text, status |-> resp.status, final_url |-> resp.url, soup |-> resp.soup]
    ELSE [html |-> None, status |-> resp.status, final_url |-> resp.url, soup |-> resp.soup]

\* ------------------------------------------------------------------ state diff

PyBool(b) == IF b THEN "True" ELSE "False"

KnownKeys ==
    {"is_sk", "last_modified_iso", "last_modified_raw", "final_url", "signals",
     "last_checked_utc"}

\* first_seen taken from the stored verdict
FirstSeen_NoVerdict(prev) == DictGet(prev, "is_sk") = None

FirstSeen(prev) == DOMAIN prev = {}

\* became_sk on every terminal verdict
BecameSk_EveryTerminal(is_sk, prev_sk) == is_sk

\* lm_changed with an unknown side counted as a change
LmChanged_NullIsChange(prev_lm_iso, lm_iso) == prev_lm_iso # lm_iso

BecameSk(is_sk, prev_sk) == is_sk /\ prev_sk \in {"False", None}

LmChanged(prev_lm_iso, lm_iso) ==
    prev_lm_iso # None /\ lm_iso # None /\ prev_lm_iso # lm_iso

\* A record that keeps the stored timestamp when the page gives none.
NewRecord_KeepIso(prev, is_sk, lm, final_url, reasons, run_ts_iso) ==
    [is_sk |-> PyBool(is_sk),
     last_modified_iso |-> IF lm.iso = None THEN DictGet(prev, "last_modified_iso")
                           ELSE lm.iso,
     last_modified_raw |-> lm.raw,
     final_url |-> final_url,
     signals |-> reasons,
     last_checked_utc |-> run_ts_iso]

\* A record merged into the stored one: the keys of prev it does not set stay.
NewRecord_Merged(prev, is_sk, lm, final_url, reasons, run_ts_iso) ==
    LET new == NewRecord_KeepIso(EmptyDict, is_sk, lm, final_url, reasons, run_ts_iso)
    IN  [k \in DOMAIN prev \cup DOMAIN new |-> IF k \in DOMAIN new THEN new[k] ELSE prev[k]]

\* A record whose timestamp is the raw text when the text does not parse.
NewRecord_RawAsIso(prev, is_sk, lm, final_url, reasons, run_ts_iso) ==
    [is_sk |-> PyBool(is_sk),
     last_modified_iso |-> IF lm.iso = None THEN lm.raw ELSE lm.iso,
     last_modified_raw |-> lm.raw,
     final_url |-> final_url,
     signals |-> reasons,
     last_checked_utc |-> run_ts_iso]

NewRecord(prev, is_sk, lm, final_url, reasons, run_ts_iso) ==
    [is_sk |-> PyBool(is_sk),
     last_modified_iso |-> lm.iso,
     last_modified_raw |-> lm.raw,
     final_url |-> final_url,
     signals |-> reasons,
     last_checked_utc |-> run_ts_iso]

ZeroTotals ==
    [checked |-> 0, sk_true |-> 0, sk_false |-> 0, sk_changed |-> 0, lm_changed |-> 0,
     first_seen |-> 0]

Bump(tot, key, cond) == IF cond THEN [tot EXCEPT ![key] = @ + 1] ELSE tot

\* The memory of a run that the loop works on.
Mem(st, events, tot, hok, notes) ==
    [state |-> st, change_events |-> events, totals |-> tot, http_ok |-> hok,
     sent |-> notes]

\* The record stored only when every notification so far was delivered.
UpdateState_IfDelivered(st, callsign, record, notes) ==
    IF \A i \in 1..Len(notes) : notes[i].delivered
    THEN StatePut(st, callsign, record) ELSE st

\* "Update state": state[callsign] = {...}, whatever the notifications (notes) of
\* the run came to.
UpdateState(st, callsign, record, notes) == StatePut(st, callsign, record)

\* A failed fetch that stores a blank record for the callsign.
OnFetchFailed_Blank(m, callsign, checked) ==
    [m EXCEPT !.totals = checked, !.state = StatePut(@, callsign, EmptyDict)]

\* not html
FetchFailed(f) == f.html \in {None, ""}

\* The iteration of a failed fetch: a warning, the sleep, continue.
OnFetchFailed(m, callsign, checked) == [m EXCEPT !.totals = checked]

\* One iteration of the loop of main() over `callsign`, from memory m, with the
\* fetch coming to f and the two possible Pushover requests to o1 and o2.
LoopBody(m, callsign, f, cfg, po, o1, o2, run_ts_iso) ==
    LET checked == Bump(m.totals, "checked", TRUE)
    IN  IF FetchFailed(f)
        THEN OnFetchFailed(m, callsign, checked)
        ELSE
        LET d          == detect_silent_key_signals(f.soup, f.final_url)
            lm         == extract_last_modified(f.soup)
            prev       == StateGet(m.state, callsign)
            first_seen == FirstSeen(prev)
            prev_sk    == DictGet(prev, "is_sk")
            prev_lm    == DictGet(prev, "last_modified_iso")
            lm_changed == LmChanged(prev_lm, lm.iso)
            became_sk  == BecameSk(d.is_sk, prev_sk)
            t1 == Bump(Bump(checked, "sk_true", d.is_sk), "sk_false", ~d.is_sk)
            t2 == Bump(t1, "first_seen", first_seen)
            t3 == Bump(t2, "sk_changed", became_sk)
            t4 == Bump(t3, "lm_changed", lm_changed)
            e1 == AppendIf(m.change_events, became_sk,
                     [line |-> "became SK", callsign |-> callsign,
                      signals |-> d.reasons])
            e2 == AppendIf(e1, lm_changed,
                     [line |-> "LastModified changed", callsign |-> callsign,
                      prev |-> prev_lm, cur |-> lm.iso])
            n1 == AppendIf(m.sent, became_sk /\ po,
                     [title |-> "is now Silent Key", callsign |-> callsign,
                      msg |-> [signals |-> d.reasons], url |-> f.final_url,
                      delivered |-> send_pushover(cfg, o1)])
            n2 == AppendIf(n1, lm_changed /\ po,
                     [title |-> "page updated", callsign |-> callsign,
                      msg |-> [prev |-> prev_lm, cur |-> lm.iso], url |-> f.final_url,
                      delivered |-> send_pushover(cfg, o2)])
            record == NewRecord(prev, d.is_sk, lm, f.final_url, d.reasons, run_ts_iso)
        IN  Mem(UpdateState(m.state, callsign, record, n2), e2, t4,
                IF f.status = "200" THEN m.http_ok + 1 ELSE m.http_ok, n2)

\* ------------------------------------------------------------------ inputs

Soup(title, og_title, header, cs_slice, full, last_modified) ==
    [title |-> title, og_title |-> og_title, header |-> header, cs_slice |-> cs_slice,
     full |-> full, last_modified |-> last_modified]

\* Every page of the classifier's check: the header and the callsign slice are
\* parts of the full text, so they are empty when it is.
AllSoups ==
    { s \in [title : Titles, og_title : Titles, header : Regions, cs_slice : Regions,
             full : {r \in Regions : ~r.silent_key}, last_modified : {NoLastModified}] :
        s.full.empty => (s.header.empty /\ s.cs_slice.empty) }

Aliases == Years \cup {None}

\* The pages a run meets.
PlainRegion == [empty |-> FALSE, silent_key |-> FALSE, qsl |-> FALSE]

PlainTitle == [text |-> TRUE, sk |-> None]

RunLastModified ==
    { [label |-> TRUE, stamp |-> "2024-01-01 00:00:00", tail |-> ", 4096 bytes by N0CALL"],
      [label |-> TRUE, stamp |-> "2024-06-01 00:00:00", tail |-> ""],
      [label |-> TRUE, stamp |-> "soon", tail |-> ""] }

RunPages ==
    { [soup |-> Soup(PlainTitle, NoTitle, PlainRegion, PlainRegion, PlainRegion, lm),
       alias |-> None] : lm \in RunLastModified }
    \cup
    { [soup |-> Soup([text |-> TRUE, sk |-> "2024"], NoTitle, PlainRegion, PlainRegion,
                     PlainRegion, lm),
       alias |-> "2024"] : lm \in RunLastModified }

NoSoup == Soup(NoTitle, NoTitle, EmptyRegion, EmptyRegion, EmptyRegion, NoLastModified)

Responses(callsign) ==
    { Response("exception", None, None, NoSoup, NoUrl),
      Response("http", "404", "Not Found", NoSoup, Url(callsign, None)),
      Response("http", "200", "", NoSoup, Url(callsign, None)) }
    \cup
    { Response("http", "200", "<html>", p.soup, Url(callsign, p.alias)) : p \in RunPages }

\* The callsign lists load_callsigns_list returns (no duplicates) for the
\* callsign files of the model.
CallLists == {<<>>, <<"VK1AA">>, <<"VK2BB">>, <<"VK1AA", "VK2BB">>}

\* The records of the state file before the first run: two written by an earlier
\* run of this program, one by another version of it (no is_sk, a key this
\* program does not know).
OldRecords(callsign) ==
    LET lm == [iso |-> "2024-01-01T00:00:00", raw |-> "2024-01-01 00:00:00"]
        r0 == NewRecord(EmptyDict, FALSE, lm, Url(callsign, None), <<>>, 0)
    IN  { r0,
          NewRecord(EmptyDict, TRUE, lm, Url(callsign, "2024"), <<"URL alias SK2024">>, 0),
          [k \in (KnownKeys \ {"is_sk"}) \cup {"note"} |->
              IF k = "note" THEN "added by hand" ELSE r0[k]] }

InitFiles ==
    UNION { { file \in [cs -> UNION {OldRecords(c) : c \in cs}] :
                \A c \in cs : file[c] \in OldRecords(c) } : cs \in SUBSET Calls }

\* ------------------------------------------------------------------ a run

NoLast == [callsign |-> None, fetched |-> FALSE, lm_iso |-> None, lm_raw |-> None]

NoHeartbeat == [target_day_idx |-> 6, weekday |-> 6, is_heartbeat_day |-> FALSE]

NoDoc == [soup |-> NoSoup, final_url |-> NoUrl]

NoDet == [is_sk |-> FALSE, reasons |-> <<>>]

NoCfg == [token |-> None, user |-> None]

\* The configuration of the reference run: Pushover configured.
RefCfg == [token |-> "app-token", user |-> "user-key"]

Init ==
    /\ pc = "idle"
    /\ run = 0
    /\ stateFile \in InitFiles
    /\ tmpFile = NoFile
    /\ calls = <<>>
    /\ idx = 0
    /\ state = EmptyDict
    /\ change_events = <<>>
    /\ totals = ZeroTotals
    /\ http_ok = 0
    /\ api_cfg = NoCfg
    /\ po_ok = FALSE
    /\ sent = <<>>
    /\ last = NoLast
    /\ heartbeat = NoHeartbeat
    /\ exit_code = None
    /\ ref = Mem(EmptyDict, <<>>, ZeroTotals, 0, <<>>)
    /\ doc = NoDoc
    /\ det = NoDet
    /\ logFile = NoLog(DevNull)

\* main() up to the loop: the configuration, the callsign list, the state.
StartRun ==
    /\ pc \in {"idle", "done", "crashed"}
    /\ run < MaxRuns
    /\ \E cfg \in ApiConfigs, cl \in CallLists :
        /\ run' = run + 1
        /\ api_cfg' = cfg
        /\ calls' = cl
        /\ idx' = 0
        /\ change_events' = <<>>
        /\ totals' = ZeroTotals
        /\ http_ok' = 0
        /\ sent' = <<>>
        /\ last' = NoLast
        /\ heartbeat' = NoHeartbeat
        /\ doc' = NoDoc
        /\ det' = NoDet
        /\ IF cl = <<>>
           THEN /\ pc' = "done"
                /\ exit_code' = "2"
                /\ state' = EmptyDict
                /\ po_ok' = FALSE
                /\ ref' = Mem(EmptyDict, <<>>, ZeroTotals, 0, <<>>)
           ELSE /\ pc' = "loop"
                /\ exit_code' = None
                /\ state' = load_state(stateFile)
                /\ po_ok' = pushover_enabled(cfg)
                /\ ref' = Mem(load_state(stateFile), <<>>, ZeroTotals, 0, <<>>)
    /\ UNCHANGED <<stateFile, tmpFile, logFile>>

\* One iteration of the loop.
CheckCallsign ==
    /\ pc = "loop"
    /\ idx < Len(calls)
    /\ LET callsign == calls[idx + 1] IN
       \E resp \in Responses(callsign) :
       \E o1, o2 \in IF FetchFailed(fetch_qrz_page(resp, callsign))
                     THEN {"200"} ELSE SendOutcomes :
          LET f == fetch_qrz_page(resp, callsign)
              lm == extract_last_modified(f.soup)
          IN  \E m \in {LoopBody(Mem(state, change_events, totals, http_ok, sent),
                                 callsign, f, api_cfg, po_ok, o1, o2, run)} :
              /\ state' = m.state
              /\ change_events' = m.change_events
              /\ totals' = m.totals
              /\ http_ok' = m.http_ok
              /\ sent' = m.sent
              /\ ref' = LoopBody(ref, callsign, f, RefCfg, TRUE, "200", "200", run)
              /\ IF FetchFailed(f)
                 THEN /\ last' = [NoLast EXCEPT !.callsign = callsign]
                      /\ UNCHANGED <<doc, det, logFile>>
                 ELSE /\ last' = [callsign |-> callsign, fetched |-> TRUE,
                                  lm_iso |-> lm.iso, lm_raw |-> lm.raw]
                      /\ doc' = [soup |-> f.soup, final_url |-> f.final_url]
                      /\ det' = detect_silent_key_signals(f.soup, f.final_url)
                      /\ logFile' = logger_info(logFile,
                            CheckLines(run, callsign,
                                detect_silent_key_signals(f.soup, f.final_url), lm,
                                f.final_url,
                                SubSeq(m.change_events, Len(change_events) + 1,
                                       Len(m.change_events))))
    /\ idx' = idx + 1
    /\ UNCHANGED <<pc, run, stateFile, tmpFile, calls, api_cfg, po_ok, heartbeat, exit_code>>

\* save_state: open(tmp, "w")
SaveOpen ==
    /\ pc = "loop"
    /\ idx = Len(calls)
    /\ LET files == OpenTmp(Files(stateFile, tmpFile))
       IN  stateFile' = files.path /\ tmpFile' = files.tmp
    /\ pc' = "save_write"
    /\ UNCHANGED <<run, calls, idx, state, change_events, totals, http_ok,
                   api_cfg, po_ok, sent, last, heartbeat, exit_code, ref, doc, det,
                   logFile>>

\* save_state: json.dump writes the next record to the temporary file
SaveWrite ==
    /\ pc = "save_write"
    /\ Unwritten(state, tmpFile) # <<>>
    /\ LET c == Head(Unwritten(state, tmpFile))
           files == DumpRecord(Files(stateFile, tmpFile), c, state[c])
       IN  stateFile' = files.path /\ tmpFile' = files.tmp
    /\ UNCHANGED <<pc, run, calls, idx, state, change_events, totals, http_ok,
                   api_cfg, po_ok, sent, last, heartbeat, exit_code, ref, doc, det,
                   logFile>>

\* save_state: os.replace(tmp, path)
SaveReplace ==
    /\ pc = "save_write"
    /\ Unwritten(state, tmpFile) = <<>>
    /\ LET files == Replace(Files(stateFile, tmpFile))
       IN  stateFile' = files.path /\ tmpFile' = files.tmp
    /\ pc' = "summary"
    /\ UNCHANGED <<run, calls, idx, state, change_events, totals, http_ok,
                   api_cfg, po_ok, sent, last, heartbeat, exit_code, ref, doc, det,
                   logFile>>

\* main() after the save: the summary and the heartbeat.
Summary ==
    /\ pc = "summary"
    /\ \E day \in HeartbeatDays, weekday \in Weekdays, o \in SendOutcomes :
        LET nothing_changed  == totals.sk_changed = 0 /\ totals.lm_changed = 0
            target_day_idx   == _parse_weekday(day)
            is_heartbeat_day == weekday = target_day_idx
        IN  /\ heartbeat' = [target_day_idx |-> target_day_idx, weekday |-> weekday,
                             is_heartbeat_day |-> is_heartbeat_day]
            /\ sent' = AppendIf(sent, HeartbeatDue(is_heartbeat_day, nothing_changed, po_ok),
                          [title |-> "No changes detected", callsign |-> None,
                           msg |-> totals, url |-> NoUrl,
                           delivered |-> send_pushover(api_cfg, o)])
    /\ logFile' = logger_info(logFile, RunCompleteLine(run))
    /\ pc' = "done"
    /\ exit_code' = "0"
    /\ UNCHANGED <<run, stateFile, tmpFile, calls, idx, state, change_events, totals,
                   http_ok, api_cfg, po_ok, last, ref, doc, det>>

\* The process stops where it is (killed, power loss, an uncaught exception).
Crash ==
    /\ pc \in {"loop", "save_write", "summary"}
    /\ pc' = "crashed"
    /\ UNCHANGED <<run, stateFile, tmpFile, calls, idx, state, change_events, totals,
                   http_ok, api_cfg, po_ok, sent, last, heartbeat, exit_code, ref, doc,
                   det, logFile>>

Next == StartRun \/ CheckCallsign \/ SaveOpen \/ SaveWrite \/ SaveReplace \/ Summary

Spec == Init /\ [][Next]_vars

\* The runs that may stop anywhere start from the state files in which VK1AA has
\* the non-terminal record of an earlier run.
CrashInit ==
    /\ Init
    /\ "VK1AA" \in DOMAIN stateFile
    /\ DictGet(stateFile["VK1AA"], "is_sk") = "False"
    /\ \A c \in DOMAIN stateFile \ {"VK1AA"} : DictGet(stateFile[c], "is_sk") = "True"

CrashNext == Next \/ Crash

CrashSpec == CrashInit /\ [][CrashNext]_vars

\* ------------------------------------------------------------------ runs with a log

\* The page of a response of RunPages for a callsign, as fetch_qrz_page returns it.
Fetched(callsign, p) ==
    fetch_qrz_page(Response("http", "200", "<html>", p.soup, Url(callsign, p.alias)),
                   callsign)

\* The state file and the log a complete run at time 0 leaves on a fresh install,
\* its only callsign VK1AA, Pushover not configured, the page being p.
EarlierRun(p) ==
    LET f == Fetched("VK1AA", p)
        m == LoopBody(Mem(EmptyDict, <<>>, ZeroTotals, 0, <<>>), "VK1AA", f, NoCfg,
                      FALSE, "200", "200", 0)
        checked == logger_info(NoLog("qrz_silentkey.log"),
                       CheckLines(0, "VK1AA", detect_silent_key_signals(f.soup, f.final_url),
                                  extract_last_modified(f.soup), f.final_url,
                                  m.change_events))
    IN  [file |-> m.state, log |-> logger_info(checked, RunCompleteLine(0))]

\* The page of the earlier run: no terminal signal, the first timestamp.
EarlierPages ==
    {p \in RunPages :
        p.alias = None /\ extract_last_modified(p.soup).iso = "2024-01-01T00:00:00"}

\* A fresh install, or the files one earlier run has left.
HistoryStarts ==
    {[file |-> EmptyDict, log |-> NoLog("qrz_silentkey.log")]}
    \cup {EarlierRun(p) : p \in EarlierPages}

HistoryInit ==
    /\ pc = "idle"
    /\ run = 0
    /\ \E start \in HistoryStarts : stateFile = start.file /\ logFile = start.log
    /\ tmpFile = NoFile
    /\ calls = <<>>
    /\ idx = 0
    /\ state = EmptyDict
    /\ change_events = <<>>
    /\ totals = ZeroTotals
    /\ http_ok = 0
    /\ api_cfg = NoCfg
    /\ po_ok = FALSE
    /\ sent = <<>>
    /\ last = NoLast
    /\ heartbeat = NoHeartbeat
    /\ exit_code = None
    /\ ref = Mem(EmptyDict, <<>>, ZeroTotals, 0, <<>>)
    /\ doc = NoDoc
    /\ det = NoDet

\* The process stops during the loop, before save_state is called.
Stop == pc = "loop" /\ Crash

HistoryNext == Next \/ Stop

HistorySpec == HistoryInit /\ [][HistoryNext]_vars

\* ------------------------------------------------------------------ the classifier alone

ClassifyInit ==
    /\ pc = "classify"
    /\ doc \in [soup : AllSoups, final_url : {Url("VK1AA", a) : a \in Aliases}]
    /\ det = NoDet
    /\ run = 0
    /\ stateFile = EmptyDict
    /\ tmpFile = NoFile
    /\ calls = <<>>
    /\ idx = 0
    /\ state = EmptyDict
    /\ change_events = <<>>
    /\ totals = ZeroTotals
    /\ http_ok = 0
    /\ api_cfg = NoCfg
    /\ po_ok = FALSE
    /\ sent = <<>>
    /\ last = NoLast
    /\ heartbeat = NoHeartbeat
    /\ exit_code = None
    /\ ref = Mem(EmptyDict, <<>>, ZeroTotals, 0, <<>>)
    /\ logFile = NoLog(DevNull)

Classify ==
    /\ pc = "classify"
    /\ det' = detect_silent_key_signals(doc.soup, doc.final_url)
    /\ pc' = "classified"
    /\ UNCHANGED <<run, stateFile, tmpFile, calls, idx, state, change_events, totals,
                   http_ok, api_cfg, po_ok, sent, last, heartbeat, exit_code, ref, doc,
                   logFile>>

ClassifySpec == ClassifyInit /\ [][Classify]_vars

\* ------------------------------------------------------------------ properties

\* A step of the loop over one callsign, and the callsign it checks.
CheckStep == pc = "loop" /\ idx' = idx + 1

Checked == calls[idx + 1]

\* The step is a check whose fetch returned a document.
SuccessfulCheck == CheckStep /\ last'.fetched

\* What a step appended to a list.
Added(old, new) == SubSeq(new, Len(old) + 1, Len(new))

Grows(old, new) == Len(new) >= Len(old) /\ SubSeq(new, 1, Len(old)) = old

\* The lines and notifications about callsign c with a given heading in a list.
LinesOf(events, heading, c) ==
    SelectSeq(events, LAMBDA e : e.line = heading /\ e.callsign = c)

NotesOf(notes, title, c) ==
    SelectSeq(notes, LAMBDA n : n.title = title /\ n.callsign = c)

\* The record of c in a mapping has key k with value v.
Holds(mapping, c, k, v) ==
    c \in DOMAIN mapping /\ k \in DOMAIN mapping[c] /\ mapping[c][k] = v

\* The record of c in a mapping has no key k, or None under it.
Unknown(mapping, c, k) ==
    c \notin DOMAIN mapping \/ k \notin DOMAIN mapping[c] \/ mapping[c][k] = None

\* C1. A successful check of an identifier appends the "became SK" change line,
\* and with the notifier configured sends the "is now Silent Key" notification,
\* exactly when the current verdict is terminal and the previous record is absent
\* or has is_sk false or unknown; never on terminal -> terminal, never when the
\* current verdict is not terminal.
C1_BecameTerminalIff ==
    [][ SuccessfulCheck =>
          LET c == Checked
              due == det'.is_sk /\ ~Holds(state, c, "is_sk", "True")
              lines == LinesOf(Added(change_events, change_events'), "became SK", c)
              notes == NotesOf(Added(sent, sent'), "is now Silent Key", c)
          IN  /\ Grows(change_events, change_events') /\ Grows(sent, sent')
              /\ Len(lines) = (IF due THEN 1 ELSE 0)
              /\ Len(notes) = (IF due /\ po_ok THEN 1 ELSE 0)
              /\ totals'.sk_changed = totals.sk_changed + (IF due THEN 1 ELSE 0) ]_vars

\* C1 witness: a page found terminal whose stored record said is_sk false, the
\* change line appended and the notification sent.
C1_Witness ==
    /\ pc = "loop" /\ last.fetched /\ det.is_sk /\ po_ok
    /\ Holds(stateFile, last.callsign, "is_sk", "False")
    /\ Len(LinesOf(change_events, "became SK", last.callsign)) = 1
    /\ Len(NotesOf(sent, "is now Silent Key", last.callsign)) = 1

\* C2. A successful check appends the "LastModified changed" line (and with the
\* notifier configured sends "page updated") exactly when the previous record's
\* last_modified_iso and the current one are both known and differ, and the line
\* and the notification carry both values.
C2_TimestampChangedIff ==
    [][ SuccessfulCheck =>
          LET c == Checked
              before == IF Unknown(state, c, "last_modified_iso") THEN None
                        ELSE state[c].last_modified_iso
              after == last'.lm_iso
              due == before # None /\ after # None /\ before # after
              lines == LinesOf(Added(change_events, change_events'),
                               "LastModified changed", c)
              notes == NotesOf(Added(sent, sent'), "page updated", c)
          IN  /\ Len(lines) = (IF due THEN 1 ELSE 0)
              /\ Len(notes) = (IF due /\ po_ok THEN 1 ELSE 0)
              /\ \A i \in 1..Len(lines) : lines[i].prev = before /\ lines[i].cur = after
              /\ \A i \in 1..Len(notes) :
                    notes[i].msg.prev = before /\ notes[i].msg.cur = after
              /\ totals'.lm_changed = totals.lm_changed + (IF due THEN 1 ELSE 0) ]_vars

\* C2 witness: the stored timestamp was 2024-01-01, the page now says 2024-06-01,
\* and the line with both values is among the change events.
C2_Witness ==
    /\ pc = "loop" /\ last.fetched /\ po_ok
    /\ Holds(stateFile, last.callsign, "last_modified_iso", "2024-01-01T00:00:00")
    /\ last.lm_iso = "2024-06-01T00:00:00"
    /\ \E i \in 1..Len(change_events) :
          /\ change_events[i].line = "LastModified changed"
          /\ change_events[i].callsign = last.callsign
          /\ change_events[i].prev = "2024-01-01T00:00:00"
          /\ change_events[i].cur = "2024-06-01T00:00:00"
    /\ Len(NotesOf(sent, "page updated", last.callsign)) = 1

\* C3. A check whose fetch returns no document leaves the state mapping, the
\* change events, the notifications and the first-seen and change counters as
\* they were, the loop goes on to the next callsign, and a run that reaches its
\* end has saved the mapping.
C3_FailedFetchLeavesState ==
    /\ [][ (CheckStep /\ ~last'.fetched) =>
              /\ state' = state
              /\ change_events' = change_events
              /\ sent' = sent
              /\ totals' = [totals EXCEPT !.checked = @ + 1]
              /\ pc' = "loop" /\ calls' = calls ]_vars
    /\ [](pc \in {"summary", "done"} /\ exit_code # "2" => stateFile = state)

\* C3 witness: the fetch of VK1AA failed, VK2BB was then checked, and the saved
\* file has VK1AA's old record and VK2BB's new one.
C3_Witness ==
    /\ pc = "done" /\ exit_code = "0" /\ calls = <<"VK1AA", "VK2BB">>
    /\ totals.checked = 2
    /\ Holds(stateFile, "VK1AA", "last_checked_utc", 0)
    /\ Holds(stateFile, "VK2BB", "last_checked_utc", run)

\* C4. After a successful check the record of the identifier is exactly the data
\* of this check: verdict, normalized and raw last-modified, final URL, evidence
\* and the run's timestamp, under the six known keys and no other.
C4_RecordIsCurrentCheck ==
    [][ SuccessfulCheck =>
          /\ Checked \in DOMAIN state'
          /\ state'[Checked] =
                [is_sk |-> PyBool(det'.is_sk),
                 last_modified_iso |-> last'.lm_iso,
                 last_modified_raw |-> last'.lm_raw,
                 final_url |-> doc'.final_url,
                 signals |-> det'.reasons,
                 last_checked_utc |-> run]
          /\ \A c \in DOMAIN state \ {Checked} : c \in DOMAIN state' /\ state'[c] = state[c]
      ]_vars

\* C4 witness: the stored record had a timestamp and a key of another version;
\* the check found no parseable timestamp and no event fired, and the record now
\* has the six keys with last_modified_iso None.
C4_Witness ==
    /\ pc = "loop" /\ last.fetched /\ change_events = <<>>
    /\ Holds(stateFile, last.callsign, "note", "added by hand")
    /\ Holds(stateFile, last.callsign, "last_modified_iso", "2024-01-01T00:00:00")
    /\ Holds(state, last.callsign, "last_modified_iso", None)
    /\ Holds(state, last.callsign, "last_modified_raw", "soon")
    /\ DOMAIN state[last.callsign] = KnownKeys

\* The keys of the record of c that this program does not write.
UnknownKeys(mapping, c) ==
    IF c \in DOMAIN mapping THEN DOMAIN mapping[c] \ KnownKeys ELSE {}

\* The run has checked c successfully.
CheckedThisRun(c) == Holds(state, c, "last_checked_utc", run)

\* C5 as stated: a key of a persisted record that the program does not know is
\* still in that identifier's record whenever the state file is written.
C5_UnknownKeysKept ==
    [][ \A c \in DOMAIN stateFile : \A k \in UnknownKeys(stateFile, c) :
            c \in DOMAIN stateFile' /\ k \in DOMAIN stateFile'[c] ]_vars

\* C5 as amended: unknown keys are tolerated on load; when the run replaces the
\* state file, the record of an identifier the run did not check successfully is
\* written back as it was, unknown keys included, and the record of an identifier
\* it checked successfully has the six known keys only.
C5_UnknownKeysKeptUnlessChecked ==
    [][ stateFile' # stateFile =>
          \A c \in DOMAIN stateFile :
             /\ c \in DOMAIN stateFile'
             /\ IF CheckedThisRun(c)
                THEN DOMAIN stateFile'[c] = KnownKeys
                ELSE stateFile'[c] = stateFile[c] ]_vars

\* C5 witness: the file is about to be replaced; both records had the unknown
\* key, VK1AA was checked and lost it, the fetch of VK2BB failed and it kept it.
C5_Witness ==
    /\ pc = "save_write" /\ Unwritten(state, tmpFile) = <<>>
    /\ calls = <<"VK1AA", "VK2BB">>
    /\ "note" \in UnknownKeys(stateFile, "VK1AA") /\ "note" \in UnknownKeys(stateFile, "VK2BB")
    /\ CheckedThisRun("VK1AA") /\ ~CheckedThisRun("VK2BB")
    /\ UnknownKeys(tmpFile.data, "VK1AA") = {}
    /\ UnknownKeys(tmpFile.data, "VK2BB") = {"note"}

\* C6. The state file changes in one step only, the os.replace at the end of the
\* run, and then to the whole mapping of the run, which the temporary file holds
\* in full; every other step, the writes to the temporary file and a crash
\* anywhere included, leaves the state file as it was. After the replace the run
\* does not write the file again.
C6_AtomicReplace ==
    /\ [][ \/ stateFile' = stateFile
           \/ /\ pc = "save_write" /\ pc' = "summary" /\ idx = Len(calls)
              /\ tmpFile.exists /\ tmpFile.data = state
              /\ stateFile' = state ]_vars
    /\ [][ (pc \in {"summary", "done", "crashed"} /\ run' = run)
              => (stateFile' = stateFile) ]_vars

\* C6 witness: a crash during the temporary write: the temporary file holds part
\* of the run's mapping and the state file still the old mapping, without the
\* run's updates.
C6_Witness ==
    /\ pc = "crashed" /\ tmpFile.exists
    /\ DOMAIN tmpFile.data # {} /\ DOMAIN tmpFile.data # DOMAIN state
    /\ \A c \in DOMAIN stateFile : Holds(stateFile, c, "last_checked_utc", 0)
    /\ \E c \in DOMAIN state : CheckedThisRun(c)

\* C7. A successful check counts the identifier as first seen exactly when the
\* loaded state file has no record of it; with no record and a terminal verdict
\* the same check also appends the "became SK" line.
C7_FirstSeenIff ==
    [][ SuccessfulCheck =>
          LET absent == Checked \notin DOMAIN stateFile
              lines == LinesOf(Added(change_events, change_events'), "became SK", Checked)
          IN  /\ totals'.first_seen = totals.first_seen + (IF absent THEN 1 ELSE 0)
              /\ (absent /\ det'.is_sk) => Len(lines) = 1 ]_vars

\* C7 witness: an identifier without a record found terminal: counted as first
\* seen and reported as became SK.
C7_Witness ==
    /\ pc = "loop" /\ last.fetched /\ det.is_sk
    /\ last.callsign \notin DOMAIN stateFile
    /\ totals.first_seen = 1
    /\ Len(LinesOf(change_events, "became SK", last.callsign)) = 1

\* C8. Whatever the detectors find (URL alias, title path, header phrase in the
\* header and in the callsign slice, QSL line in header, slice and page, regions
\* empty or not), the classifier's verdict is true exactly when its evidence
\* list is non-empty, and no string occurs twice in the list.
C8_VerdictIffEvidence ==
    pc = "classified" =>
        /\ det.is_sk = (Len(det.reasons) > 0)
        /\ \A i, j \in 1..Len(det.reasons) : i # j => det.reasons[i] # det.reasons[j]

\* C8 witness: a page on which every detector fires: five pieces of evidence.
C8_Witness ==
    /\ pc = "classified" /\ det.is_sk
    /\ doc.final_url.alias = "2024" /\ doc.soup.og_title.sk = "2024"
    /\ doc.soup.header.silent_key /\ doc.soup.cs_slice.silent_key
    /\ doc.soup.header.qsl /\ doc.soup.cs_slice.qsl /\ doc.soup.full.qsl
    /\ Len(det.reasons) = 5

\* C9. What send_pushover returns, and whether Pushover is configured at all,
\* changes nothing but the notifications: the state mapping, the change lines
\* and the counters are those of the same run with Pushover configured and every
\* notification delivered, and a run that finishes has been through every
\* callsign, has saved the mapping and returns 0.
C9_DeliveryDoesNotMatter ==
    /\ state = ref.state
    /\ change_events = ref.change_events
    /\ totals = ref.totals
    /\ http_ok = ref.http_ok
    /\ (pc = "done" /\ calls # <<>>) =>
          /\ exit_code = "0"
          /\ idx = Len(calls) /\ totals.checked = Len(calls)
          /\ stateFile = state

\* C9 witness: the "is now Silent Key" notification for VK1AA was not delivered;
\* VK1AA's record says terminal, VK2BB was checked after it, the file is saved
\* and the run returned 0.
C9_Witness ==
    /\ pc = "done" /\ exit_code = "0" /\ po_ok /\ calls = <<"VK1AA", "VK2BB">>
    /\ \E i \in 1..Len(sent) :
          /\ sent[i].title = "is now Silent Key" /\ sent[i].callsign = "VK1AA"
          /\ ~sent[i].delivered
    /\ Holds(stateFile, "VK1AA", "is_sk", "True")
    /\ Holds(stateFile, "VK1AA", "last_checked_utc", run)
    /\ Holds(stateFile, "VK2BB", "last_checked_utc", run)

\* <<s>> when cond holds, else the empty list.
Opt(cond, s) == IF cond THEN <<s>> ELSE <<>>

\* The year of the first title (page title, then og:title) that has an /SKyyyy.
TitleYear(soup) ==
    IF soup.title.text /\ soup.title.sk # None THEN soup.title.sk
    ELSE IF soup.og_title.text /\ soup.og_title.sk # None THEN soup.og_title.sk
    ELSE None

\* C11. The evidence list is, in this order: the URL alias, the title path, the
\* header phrase in the header, the header phrase in the callsign slice, and at
\* most one QSL line, tagged with the first of header, callsign slice and page
\* in which the QSL line matches.
C11_EvidenceOrder ==
    pc = "classified" =>
        LET s == doc.soup
            qsl == IF s.header.qsl THEN <<"QSL: Reported Silent Key (header)">>
                   ELSE IF s.cs_slice.qsl
                   THEN <<"QSL: Reported Silent Key (callsign-slice)">>
                   ELSE IF s.full.qsl THEN <<"QSL: Reported Silent Key (page)">>
                   ELSE <<>>
        IN  det.reasons =
               Opt(doc.final_url.alias # None, "URL alias SK" \o doc.final_url.alias)
               \o Opt(TitleYear(s) # None, "Title path SK" \o TitleYear(s))
               \o Opt(~s.header.empty /\ s.header.silent_key,
                      "Header shows 'Silent Key' (header)")
               \o Opt(~s.cs_slice.empty /\ s.cs_slice.silent_key,
                      "Header shows 'Silent Key' (callsign-slice)")
               \o qsl

\* C11 witness: every detector fires, the QSL line not in the header but in the
\* callsign slice and in the page: five entries, the last tagged callsign-slice.
C11_Witness ==
    /\ pc = "classified"
    /\ doc.final_url.alias = "2025" /\ doc.soup.title.sk = "2024"
    /\ doc.soup.header.silent_key /\ doc.soup.cs_slice.silent_key
    /\ ~doc.soup.header.qsl /\ doc.soup.cs_slice.qsl /\ doc.soup.full.qsl
    /\ det.reasons = <<"URL alias SK2025", "Title path SK2024",
                       "Header shows 'Silent Key' (header)",
                       "Header shows 'Silent Key' (callsign-slice)",
                       "QSL: Reported Silent Key (callsign-slice)">>

\* The lines of the successful checks of c in the log, oldest first.
Results(c) ==
    SelectSeq(logFile.lines, LAMBDA e : e.line = "Result" /\ e.callsign = c)

\* The log has the "Run complete" line of the run of timestamp r.
Complete(r) ==
    \E i \in 1..Len(logFile.lines) :
        logFile.lines[i].line = "Run complete" /\ logFile.lines[i].run = r

\* The CHANGE lines with a given heading among the lines of one check.
ChangesOf(e, heading) == SelectSeq(e.changes, LAMBDA x : x.line = heading)

\* C12. A successful check that finds no normalized timestamp stores None as the
\* record's last_modified_iso, whatever was stored, and appends no "LastModified
\* changed" line. So when three successive successful checks of an identifier
\* find A, then nothing, then B different from A, and the run of the middle
\* check has completed, neither the middle check nor the last one logs a
\* "LastModified changed" line, and none of the three reports a change from A.
C12_NullHidesChange ==
    /\ [][ (SuccessfulCheck /\ last'.lm_iso = None) =>
              /\ Holds(state', Checked, "last_modified_iso", None)
              /\ LinesOf(Added(change_events, change_events'),
                         "LastModified changed", Checked) = <<>> ]_vars
    /\ [](\A c \in Calls :
            LET R == Results(c)
            IN  \A i \in 1..Len(R) :
                  (/\ i + 2 <= Len(R)
                   /\ R[i].lm_iso # None /\ R[i + 1].lm_iso = None
                   /\ R[i + 2].lm_iso # None /\ R[i + 2].lm_iso # R[i].lm_iso
                   /\ Complete(R[i].run) /\ Complete(R[i + 1].run))
                  => /\ ChangesOf(R[i + 1], "LastModified changed") = <<>>
                     /\ ChangesOf(R[i + 2], "LastModified changed") = <<>>
                     /\ \A x \in 1..Len(R[i].changes) :
                           R[i].changes[x].line = "LastModified changed"
                              => R[i].changes[x].cur = R[i].lm_iso)

\* C12 witness: the log shows VK1AA checked three times, the timestamps
\* 2024-01-01, none ("soon" does not parse) and 2024-06-01, every run complete,
\* no CHANGE line at all, and the state file now holds 2024-06-01.
C12_Witness ==
    /\ pc = "done" /\ exit_code = "0" /\ Complete(0) /\ Complete(1) /\ Complete(2)
    /\ Len(Results("VK1AA")) = 3
    /\ Results("VK1AA")[1].lm_iso = "2024-01-01T00:00:00"
    /\ Results("VK1AA")[2].lm_iso = None /\ Results("VK1AA")[2].lm_raw = "soon"
    /\ Results("VK1AA")[3].lm_iso = "2024-06-01T00:00:00"
    /\ \A i \in 1..3 : Results("VK1AA")[i].changes = <<>>
    /\ Holds(stateFile, "VK1AA", "last_modified_iso", "2024-06-01T00:00:00")

\* The titles of the two change notifications.
ChangeTitles == {"is now Silent Key", "page updated"}

\* The lines of the check of c by the run of timestamp r, in the log.
ResultsOfRun(c, r) == SelectSeq(Results(c), LAMBDA e : e.run = r)

\* C13. (a) A step that sends a change notification is a step of the loop: it
\* leaves the state file alone, and the state file holds no record written by
\* this run; the state file changes only once the loop has been through every
\* callsign. (b) When the previous run checked an identifier and stopped before
\* its save, and the page is the same at this run's check, this check compares
\* with a record the previous run did not write and appends the same CHANGE
\* lines again, with a notification for each when the notifier is configured.
\* (c) When every earlier run that checked an identifier has completed and each
\* successful check found it terminal, the log has exactly one "became SK" line
\* for it, among the lines of its first successful check.
C13_EventsBeforeSave ==
    /\ [][ (sent' # sent /\ sent' # <<>> /\ sent'[Len(sent')].title \in ChangeTitles)
              => (/\ CheckStep /\ pc' = "loop"
                  /\ stateFile' = stateFile
                  /\ \A c \in DOMAIN stateFile :
                        ~Holds(stateFile, c, "last_checked_utc", run)) ]_vars
    /\ [][ (stateFile' # stateFile) => (pc = "save_write" /\ idx = Len(calls)) ]_vars
    /\ [][ SuccessfulCheck =>
              LET c == Checked
                  P == ResultsOfRun(c, run - 1)
              IN  (/\ P # <<>> /\ ~Complete(run - 1)
                   /\ P[1].is_sk = det'.is_sk /\ P[1].signals = det'.reasons
                   /\ P[1].lm_iso = last'.lm_iso /\ P[1].lm_raw = last'.lm_raw
                   /\ P[1].final_url = doc'.final_url)
                  => (/\ ~Holds(state, c, "last_checked_utc", run - 1)
                      /\ Added(change_events, change_events') = P[1].changes
                      /\ (po_ok => Len(Added(sent, sent')) = Len(P[1].changes))) ]_vars
    /\ [](\A c \in Calls :
            LET R == Results(c)
            IN  (/\ R # <<>>
                 /\ \A i \in 1..Len(R) : R[i].is_sk /\ (R[i].run < run => Complete(R[i].run)))
                => /\ Len(ChangesOf(R[1], "became SK")) = 1
                   /\ \A i \in 2..Len(R) : ChangesOf(R[i], "became SK") = <<>>)

\* C13 witness: on a fresh install run 1 found VK1AA terminal, sent the
\* notification and stopped before the save; run 2 finds the same page, the state
\* file still has no record, and "became SK" is logged and notified again.
C13_Witness ==
    /\ pc = "loop" /\ run = 2 /\ last.callsign = "VK1AA" /\ last.fetched /\ po_ok
    /\ stateFile = EmptyDict /\ ~Complete(1)
    /\ Len(Results("VK1AA")) = 2
    /\ Results("VK1AA")[1].run = 1 /\ Results("VK1AA")[2].run = 2
    /\ Len(ChangesOf(Results("VK1AA")[1], "became SK")) = 1
    /\ Results("VK1AA")[2].changes = Results("VK1AA")[1].changes
    /\ Results("VK1AA")[2].final_url = Results("VK1AA")[1].final_url
    /\ Results("VK1AA")[2].lm_iso = Results("VK1AA")[1].lm_iso
    /\ Len(NotesOf(sent, "is now Silent Key", "VK1AA")) = 1

\* The heartbeat notifications and the change notifications of the run.
HeartbeatNotes == SelectSeq(sent, LAMBDA n : n.title = "No changes detected")

ChangeNotes == SelectSeq(sent, LAMBDA n : n.title # "No changes detected")

\* C10. A run that reaches its end sends the heartbeat exactly when the weekday
\* is the configured heartbeat day, the run emitted no "became SK" and no
\* "LastModified changed" event, and the notifier is configured. The heartbeat is
\* sent once, last, after the state file has been saved, and never in a run
\* that sent a change notification.
C10_HeartbeatIff ==
    /\ (pc = "done" /\ exit_code = "0") =>
          (Len(HeartbeatNotes) = 1 <=>
              /\ heartbeat.weekday = heartbeat.target_day_idx
              /\ change_events = <<>>
              /\ po_ok)
    /\ Len(HeartbeatNotes) <= 1
    /\ HeartbeatNotes # <<>> =>
          /\ pc = "done" /\ exit_code = "0"
          /\ stateFile = state
          /\ sent[Len(sent)].title = "No changes detected"
          /\ ChangeNotes = <<>>

\* C10 witness: on the heartbeat day a run that checked two callsigns and found
\* no change has sent the heartbeat.
C10_Witness ==
    /\ pc = "done" /\ exit_code = "0" /\ totals.checked = 2 /\ http_ok = 2
    /\ heartbeat.weekday = 1 /\ heartbeat.target_day_idx = 1
    /\ Len(sent) = 1 /\ sent[1].title = "No changes detected"

====
